---- MODULE Spec2Model ----
(***************************************************************************)
(* Test-lifecycle engine of the mobile-carrier testing framework.          *)
(*                                                                         *)
(* The engine (class TestingEngine) owns the running-table activeTests,    *)
(* the queue testQueue, the statistics record and the dispatcher timer.    *)
(* The route modules (routes/network.js, routes/api.js) create one         *)
(* setInterval sampling loop per test and register its handle with         *)
(* addActiveTest.                                                          *)
(*                                                                         *)
(* Time is counted in units of 5 seconds (the cadence of the quality test, *)
(* the default interval of signal monitoring, a speed test at 0.2 Hz).     *)
(*                                                                         *)
(* The specifications, all over the same state:                            *)
(*   Spec          the program: the HTTP routes start and stop tests, the  *)
(*                 sampling timers fire and their async callbacks finish;  *)
(*   LoopSpec      the program restricted to one test, over a longer time, *)
(*                 with a Result Store that may reject writes;             *)
(*   LoadSpec      the load test of routes/api.js: ramp-up timeouts,       *)
(*                 worker intervals and the report interval;               *)
(*   RoamSpec      the roaming test of routes/network.js, a loop over the  *)
(*                 target regions without a timer;                         *)
(*   EngineSpec    the engine class driven through its public methods      *)
(*                 (addActiveTest, stopTest, stopAllTests, initialize and  *)
(*                 the dispatcher timer) by an arbitrary caller;           *)
(*   ShutdownSpec  the engine class with shutdown(), statement by          *)
(*                 statement, and its scheduled jobs;                      *)
(*   StatsSpec     the engine's operations that run while the statistics   *)
(*                 are kept, the performance monitor and shutdown();       *)
(*   ReadSpec      the engine with its getters and the performance         *)
(*                 monitor;                                                *)
(*   CapSpec       the engine with maxConcurrentTests changed while it     *)
(*                 runs;                                                   *)
(*   ResultsSpec   the routes with the deletion of a test's results;       *)
(*   PromptSpec    the sampling loops when every sample succeeds and is    *)
(*                 saved before the next tick is due;                      *)
(*   BasicSpec     the TestingEngine of services/testing-engine.js, the    *)
(*                 class that server.js and the routes load;               *)
(*   QueueSpec     the dispatcher with a backlog of three configurations;  *)
(*   StoreSpec     saveTestResult and getTestResults of the result store,  *)
(*                 with the clock counting seconds;                        *)
(*   FaultSpec     shutdown() when the try block of stopTest throws for    *)
(*                 some of the tests;                                      *)
(*   TeardownSpec  the program with stopAllTests, shutdown() and the       *)
(*                 SIGTERM handler of server.js.                           *)
(***************************************************************************)
EXTENDS Integers, Sequences, FiniteSets, TLC

\* ---------------------------------------------------------------- bounds
MaxCap      == 1   \* largest configured MAX_CONCURRENT_TESTS
MaxTime     == 1   \* clock horizon of Spec and EngineSpec, in time units
MaxLoopTime == 3   \* clock horizon of LoopSpec, in time units
MaxDuration == 2   \* longest configured duration, in time units
MaxPeriod   == 1   \* longest configured sampling interval, in time units
MaxInFlight == 2   \* callback invocations awaiting their sample at once
MaxQueue    == 2   \* queued configurations
MaxTimers   == 3   \* sampling timers created over a run
MaxWorkers  == 1   \* largest `concurrency` of a load test
MaxRampUp   == 1   \* longest `rampUp` of a load test, in time units
MaxRegions  == 2   \* most target regions of a roaming test
MaxSamples  == 3   \* rows saved per test id in StoreSpec
MaxBacklog  == 3   \* queued configurations in QueueSpec
MaxSchedules == 1  \* scheduled jobs created over a run

IdOrder   == << "A", "B" >>   \* the test identifiers, in the order of first use
TestIds   == { IdOrder[k] : k \in DOMAIN IdOrder }
\* runRealSpeedTest, runRealSignalMonitoring, runApiHealthCheck.  The loop of
\* runNetworkQualityTest has the control flow of the signal loop (save and
\* broadcast in the try, a catch that only logs) at a fixed 5000 ms interval
\* and is covered by "signal" with a period of one unit.
Kinds     == {"speed", "signal", "health"}
Outcomes  == {"ok", "fail"}     \* of the sample acquisition, the store accepting
\* "storefail": the Result Store rejects every write of the invocation
StoreOutcomes == Outcomes \cup {"storefail"}
NoTimer   == 0     \* queueProcessor = null
ScheduleIds == {"S1", "S2"}

VARIABLES
    activeTests,        \* Map testId -> testInfo (the running-table)
    testQueue,          \* array of queued test configurations
    maxConcurrentTests, \* the concurrency cap
    stats,              \* testsExecuted, testsSuccessful, testsFailed, totalRunTime
    queueProcessor,     \* handle of the dispatcher interval, NoTimer when null
    initialized,        \* initialize() has run
    timers,             \* every sampling interval created so far, by handle
    engineTimers,       \* every interval the engine set for itself, by handle
    inflight,           \* callback invocations suspended at their first await
    now,                \* Date.now()
    dbStatus,           \* test_configs.status per test id ("none": no row)
    dbResults,          \* rows of test_results / api_test_results per test id
    events,             \* events handed to broadcast(), per test id
    executed,           \* configurations the dispatcher passed to executeTest
    scheduledTests,     \* Map scheduleId -> scheduled job
    pc,                 \* position of the shutdown() call in progress, or "idle";
                        \* "closing" / "exited" once SIGTERM has been handled
    unhandled,          \* test ids whose callback ended in an unhandled rejection
    runs,               \* run functions that loop without a timer, per test id
    ret                 \* the call that returned last, with its return value

vars == << activeTests, testQueue, maxConcurrentTests, stats, queueProcessor,
           initialized, timers, engineTimers, inflight, now, dbStatus,
           dbResults, events, executed, scheduledTests, pc, unhandled, runs,
           ret >>


\* ------------------------------------------------------------- helpers
Range(s) == { s[i] : i \in DOMAIN s }

\* Handles of the intervals that have not been cleared.
ActiveTimers == { h \in DOMAIN timers : timers[h].active }

\* Handles of the sampling intervals of test t that have not been cleared.
TimersOf(t) == { h \in ActiveTimers : timers[h].test = t }

\* setInterval(callback, period): a fresh handle, first due one period ahead.
NewTimer(t, kind, period, endTime) ==
    [ test |-> t, kind |-> kind, period |-> period, endTime |-> endTime,
      nextFire |-> now + period, active |-> TRUE, ticks |-> 0 ]

\* Mutant of ClearInterval: clearing a cleared handle arms it again.
ToggleInterval(tm, h) ==
    IF h \in DOMAIN tm THEN [ tm EXCEPT ![h].active = ~ @ ] ELSE tm

\* clearInterval(h)
ClearInterval(tm, h) ==
    IF h \in DOMAIN tm THEN [ tm EXCEPT ![h].active = FALSE ] ELSE tm

\* Mutant of MapDelete: Map.clear() where one key was to be deleted.
MapClear(m, t) == << >>

\* Map.delete(testId)
MapDelete(m, t) == [ x \in DOMAIN m \ {t} |-> m[x] ]

\* Map.set(testId, v)
MapSet(m, t, v) == [ x \in DOMAIN m \cup {t} |-> IF x = t THEN v ELSE m[x] ]

\* broadcast({type, testId, ...})
Publish(ev, t, type, tick) ==
    [ ev EXCEPT ![t] = Append(@, [ type |-> type, tick |-> tick ]) ]

\* no call with a return value was the last step
NoRet == [ op |-> "none", arg |-> 0, val |-> 0 ]

\* ---------------------------------------------------------------- Init
\* State after `new TestingEngine()` and an empty database.
Init ==
    /\ activeTests = << >>
    /\ testQueue = << >>
    /\ maxConcurrentTests \in 1..MaxCap
    /\ stats = [ testsExecuted |-> 0, testsSuccessful |-> 0,
                 testsFailed |-> 0, totalRunTime |-> 0 ]
    /\ queueProcessor = NoTimer
    /\ initialized = FALSE
    /\ timers = << >>
    /\ engineTimers = << >>
    /\ inflight = {}
    /\ now = 0
    /\ dbStatus = [ t \in TestIds |-> "none" ]
    /\ dbResults = [ t \in TestIds |-> << >> ]
    /\ events = [ t \in TestIds |-> << >> ]
    /\ executed = << >>
    /\ scheduledTests = << >>
    /\ pc = "idle"
    /\ unhandled = {}
    /\ runs = << >>
    /\ ret = NoRet

\* ------------------------------------------------- TestingEngine methods
\* Mutant of addActiveTest: a registration under a resident id is not counted.
addActiveTestCountingNew(t, h) ==
    /\ activeTests' = MapSet(activeTests, t,
                             [ intervalId |-> h, startTime |-> now,
                               status |-> "running" ])
    /\ stats' = IF t \in DOMAIN activeTests THEN stats
                ELSE [ stats EXCEPT !.testsExecuted = @ + 1 ]

\* addActiveTest(testId, intervalId): Map.set and testsExecuted++.  (The
\* engine's own 'started' / 'stopped' notifications are best-effort log output
\* and are not recorded; events holds what the sampling loops publish.)
addActiveTest(t, h) ==
    /\ activeTests' = MapSet(activeTests, t,
                             [ intervalId |-> h, startTime |-> now,
                               status |-> "running" ])
    /\ stats' = [ stats EXCEPT !.testsExecuted = @ + 1 ]

\* Mutant of Runtime: the start time is not subtracted.
RuntimeSinceEpoch(test) == now

\* Date.now() - test.startTime.getTime()
Runtime(test) == now - test.startTime

\* Mutant of stopTestNotFound: the miss is counted as a failed test.
stopTestNotFoundCounted(t) ==
    /\ stats' = [ stats EXCEPT !.testsFailed = @ + 1 ]
    /\ UNCHANGED << activeTests, timers >>

\* stopTest(testId) when the id is not in the table: warn (and return false).
stopTestNotFound(t) ==
    UNCHANGED << activeTests, timers, stats >>

\* stopTest(testId) when the id is in the table: clear the interval, add the
\* runtime, delete the entry (and return true).
stopTestFound(t) ==
    /\ timers' = ClearInterval(timers, activeTests[t].intervalId)
    /\ stats' = [ stats EXCEPT !.totalRunTime = @ + Runtime(activeTests[t]) ]
    /\ activeTests' = MapDelete(activeTests, t)

stopTest(t) ==
    IF t \notin DOMAIN activeTests THEN stopTestNotFound(t) ELSE stopTestFound(t)

\* The value stopTest(testId) returns: false from the not-found branch, true
\* at the end of the try block (nothing in the block throws).
stopTestReturn(t) == t \in DOMAIN activeTests

\* Mutant of SumRuntime: every stop takes one unit off the cumulative runtime.
SumRuntimeTakenOff(m, S) == 0 - Cardinality(S)

RECURSIVE SumRuntime(_, _)
\* the runtimes stopTest adds while stopAllTests walks the keys
SumRuntime(m, S) ==
    IF S = {} THEN 0
    ELSE LET t == CHOOSE x \in S : TRUE
         IN  Runtime(m[t]) + SumRuntime(m, S \ {t})

\* Mutant of ClearAll: the table is emptied without clearing any interval.
ClearNone(tm, H) == tm

RECURSIVE ClearAll(_, _)
\* the intervals stopTest clears while stopAllTests walks the keys
ClearAll(tm, H) ==
    IF H = {} THEN tm
    ELSE LET h == CHOOSE x \in H : TRUE
         IN  ClearAll(ClearInterval(tm, h), H \ {h})

\* stopAllTests(): stopTest for every key of the table, count the successes,
\* clear the table, return the count.  Every await in the loop resolves in a
\* microtask, so no timer or request handler runs in between.
stopAllTests ==
    LET testIds == DOMAIN activeTests
    IN  /\ timers' = ClearAll(timers, { activeTests[t].intervalId : t \in testIds })
        /\ stats' = [ stats EXCEPT
                        !.totalRunTime = @ + SumRuntime(activeTests, testIds) ]
        /\ activeTests' = << >>
        /\ ret' = [ op |-> "stopAllTests", arg |-> 0,
                    val |-> Cardinality(testIds) ]

\* setInterval for one of the engine's own loops: a fresh engine handle.
EngineTimer(kind) == [ kind |-> kind, active |-> TRUE ]

\* startQueueProcessor(): clear the previous dispatcher interval, if any, and
\* set a new one.
startQueueProcessor(et) ==
    Append(ClearInterval(et, queueProcessor), EngineTimer("dispatcher"))

\* initialize(): no-op when already initialized; otherwise start the queue
\* processor, the scheduled-test checker and the performance monitor.
initialize ==
    IF initialized
    THEN UNCHANGED << engineTimers, queueProcessor, initialized >>
    ELSE /\ engineTimers' = startQueueProcessor(engineTimers)
                              \o << EngineTimer("checker"), EngineTimer("monitor") >>
         /\ queueProcessor' = Len(engineTimers) + 1
         /\ initialized' = TRUE

\* executeTest(testConfig): logs the configuration and does nothing else.
executeTest(cfg) == executed' = Append(executed, cfg)

\* Mutant of Shift: the array loses its last element.
ShiftLast(q) == SubSeq(q, 1, Len(q) - 1)

\* this.testQueue.shift(): what stays in the array.
Shift(q) == Tail(q)

\* Mutant of queueProcessorTick: the head of the queue is promoted whatever
\* the size of the running-table.
queueProcessorTickIgnoringCap ==
    IF Len(testQueue) > 0
    THEN /\ testQueue' = Tail(testQueue)
         /\ executeTest(Head(testQueue))
    ELSE UNCHANGED << testQueue, executed >>

\* One firing of the queue processor interval.
queueProcessorTick ==
    IF Len(testQueue) > 0 /\ Cardinality(DOMAIN activeTests) < maxConcurrentTests
    THEN /\ testQueue' = Shift(testQueue)
         /\ executeTest(Head(testQueue))
    ELSE UNCHANGED << testQueue, executed >>

\* ------------------------------------------- actions of the engine's caller
\* An interval of the engine's caller, opaque to the engine.
CallerTimer(t) ==
    [ test |-> t, kind |-> "caller", period |-> 0, endTime |-> 0,
      nextFire |-> 0, active |-> TRUE, ticks |-> 0 ]

\* Test ids come into use in the order of IdOrder.
Used == { timers[h].test : h \in DOMAIN timers } \cup DOMAIN runs
          \cup { t \in TestIds : dbStatus[t] # "none" }
          \cup Range(testQueue) \cup Range(executed)
Fresh(t) == \E k \in DOMAIN IdOrder :
                /\ t = IdOrder[k]
                /\ t \notin Used
                /\ \A j \in 1..(k - 1) : IdOrder[j] \in Used

\* A caller creates an interval and registers it under test id t: a new id or
\* one used before.
CallAddActiveTest(t) ==
    /\ Len(timers) < MaxTimers
    /\ t \in Used \/ Fresh(t)
    /\ timers' = Append(timers, CallerTimer(t))
    /\ addActiveTest(t, Len(timers) + 1)
    /\ ret' = NoRet
    /\ UNCHANGED << testQueue, maxConcurrentTests, queueProcessor, initialized,
                    engineTimers, inflight, now, dbStatus, dbResults, events,
                    executed,
                    scheduledTests, pc, unhandled, runs >>

CallStopTest(t) ==
    /\ stopTest(t)
    /\ ret' = [ op |-> "stopTest", arg |-> t, val |-> stopTestReturn(t) ]
    /\ UNCHANGED << testQueue, maxConcurrentTests, queueProcessor, initialized,
                    engineTimers, inflight, now, dbStatus, dbResults, events,
                    executed,
                    scheduledTests, pc, unhandled, runs >>

CallStopAllTests ==
    /\ stopAllTests
    /\ UNCHANGED << testQueue, maxConcurrentTests, queueProcessor, initialized,
                    engineTimers, inflight, now, dbStatus, dbResults, events,
                    executed,
                    scheduledTests, pc, unhandled, runs >>

CallInitialize ==
    /\ initialize
    /\ ret' = NoRet
    /\ UNCHANGED << activeTests, testQueue, maxConcurrentTests, stats, timers,
                    inflight, now, dbStatus, dbResults, events, executed,
                    scheduledTests, pc, unhandled, runs >>

\* A configuration is put on the engine's queue: the admission path of
\* section 4.3, for a new test id.
Enqueue(t) ==
    /\ Len(testQueue) < MaxQueue
    /\ Fresh(t)
    /\ testQueue' = Append(testQueue, t)
    /\ ret' = NoRet
    /\ UNCHANGED << activeTests, maxConcurrentTests, stats, queueProcessor,
                    initialized, timers, engineTimers, inflight, now, dbStatus,
                    dbResults, events, executed,
                    scheduledTests, pc, unhandled, runs >>

\* The dispatcher interval fires.
QueueProcessorTick ==
    /\ queueProcessor \in DOMAIN engineTimers
    /\ engineTimers[queueProcessor].active
    /\ queueProcessorTick
    /\ ret' = NoRet
    /\ UNCHANGED << activeTests, maxConcurrentTests, stats, queueProcessor,
                    initialized, timers, engineTimers, inflight, now, dbStatus,
                    dbResults, events,
                    scheduledTests, pc, unhandled, runs >>

\* The clock advances by one unit, once every sampling interval that is due
\* has fired.
AdvanceTime(horizon) ==
    /\ now < horizon
    /\ \A h \in ActiveTimers :
           timers[h].kind # "caller" => timers[h].nextFire > now
    /\ now' = now + 1
    /\ ret' = NoRet
    /\ UNCHANGED << activeTests, testQueue, maxConcurrentTests, stats,
                    queueProcessor, initialized, timers, engineTimers, inflight,
                    dbStatus, dbResults, events, executed,
                    scheduledTests, pc, unhandled, runs >>

EngineNext ==
    \/ \E t \in TestIds : CallAddActiveTest(t)
    \/ \E t \in TestIds : CallStopTest(t)
    \/ CallStopAllTests
    \/ CallInitialize
    \/ \E t \in TestIds : Enqueue(t)
    \/ QueueProcessorTick
    \/ AdvanceTime(MaxTime)

EngineSpec == Init /\ [][EngineNext]_vars

\* ----------------------------------------------------------- shutdown()
\* The dispatcher interval is set and has not been cleared.
DispatcherActive ==
    queueProcessor \in DOMAIN engineTimers /\ engineTimers[queueProcessor].active

\* A recurring job is registered in scheduledTests under a new schedule id,
\* with the cron task that runs it.
ScheduleTest(sid) ==
    /\ sid \notin DOMAIN scheduledTests
    /\ Cardinality({ h \in DOMAIN engineTimers : engineTimers[h].kind = "cron" })
          < MaxSchedules
    /\ engineTimers' = Append(engineTimers, EngineTimer("cron"))
    /\ scheduledTests' = MapSet(scheduledTests, sid,
                                [ task |-> Len(engineTimers) + 1, active |-> TRUE ])
    /\ ret' = NoRet
    /\ UNCHANGED << activeTests, testQueue, maxConcurrentTests, stats,
                    queueProcessor, initialized, timers, inflight, now, dbStatus,
                    dbResults, events, executed, pc, unhandled, runs >>

\* shutdown() is called while no shutdown is in progress; first statement:
\* if (this.queueProcessor) clearInterval(this.queueProcessor).
ShutdownBegin ==
    /\ pc \in {"idle", "done"}
    /\ engineTimers' = ClearInterval(engineTimers, queueProcessor)
    /\ pc' = "stopAll"
    /\ ret' = NoRet
    /\ UNCHANGED << activeTests, testQueue, maxConcurrentTests, stats,
                    queueProcessor, initialized, timers, inflight, now, dbStatus,
                    dbResults, events, executed, scheduledTests, unhandled,
                    runs >>

\* shutdown(), second statement: await this.stopAllTests().
ShutdownStopAll ==
    /\ pc = "stopAll"
    /\ stopAllTests
    /\ pc' = "release"
    /\ UNCHANGED << testQueue, maxConcurrentTests, queueProcessor, initialized,
                    engineTimers, inflight, now, dbStatus, dbResults, events,
                    executed, scheduledTests, unhandled, runs >>

\* shutdown(), last loop: removeScheduledTest for every key of scheduledTests
\* (task.stop() and Map.delete); then the call returns.
ShutdownRelease ==
    /\ pc = "release"
    /\ engineTimers' = ClearAll(engineTimers,
                                { scheduledTests[x].task : x \in DOMAIN scheduledTests })
    /\ scheduledTests' = << >>
    /\ pc' = "done"
    /\ ret' = [ op |-> "shutdown", arg |-> 0, val |-> 0 ]
    /\ UNCHANGED << activeTests, testQueue, maxConcurrentTests, stats,
                    queueProcessor, initialized, timers, inflight, now, dbStatus,
                    dbResults, events, executed, unhandled, runs >>

\* The engine class with shutdown(): the statements of one shutdown() call run
\* without any other callback in between (its awaits resolve in microtasks).
ShutdownNext ==
    \/ pc \in {"idle", "done"} /\ \E t \in TestIds : CallAddActiveTest(t)
    \/ pc \in {"idle", "done"} /\ CallInitialize
    \/ pc \in {"idle", "done"} /\ \E t \in TestIds : Enqueue(t)
    \/ pc \in {"idle", "done"} /\ QueueProcessorTick
    \/ pc \in {"idle", "done"} /\ \E sid \in ScheduleIds : ScheduleTest(sid)
    \/ pc \in {"idle", "done"} /\ AdvanceTime(MaxTime)
    \/ ShutdownBegin
    \/ ShutdownStopAll
    \/ ShutdownRelease

ShutdownSpec == Init /\ [][ShutdownNext]_vars

\* ------------------------------------------------------ the result store
\* DatabaseService.updateTestStatus: UPDATE test_configs ... WHERE id = ?
updateTestStatus(db, t, status) ==
    IF db[t] = "none" THEN db ELSE [ db EXCEPT ![t] = status ]

\* DatabaseService.saveTestResult / saveApiTestResult: INSERT one row each.
saveTestResult(res, t, rows) == [ res EXCEPT ![t] = @ \o rows ]

\* ------------------------------------------------- the sampling loops
\* Durations a start route accepts: POST /speed rejects below 5 seconds, the
\* other routes take the value as it comes.
Durations(kind) == IF kind = "speed" THEN 1..MaxDuration ELSE 0..MaxDuration

\* Sampling intervals: 1000/frequency for speed, `interval` seconds for signal
\* and health.
Periods(kind) == 1..MaxPeriod

\* Mutant of SampleRows: a successful sample is saved twice.
SampleRowsTwice(kind, outcome, tick) ==
    IF outcome = "ok" THEN << [ tick |-> tick, err |-> FALSE ],
                              [ tick |-> tick, err |-> FALSE ] >>
    ELSE IF outcome = "fail" /\ kind \in {"speed", "health"}
         THEN << [ tick |-> tick, err |-> TRUE ] >>
    ELSE << >>

\* The rows one callback invocation persists.  runRealSpeedTest saves the
\* result, or an errorResult from its catch; runApiHealthCheck saves a result
\* per endpoint from the try or from the catch (one endpoint is configured);
\* runRealSignalMonitoring saves the result and only logs in its catch.
SampleRows(kind, outcome, tick) ==
    IF outcome = "ok" THEN << [ tick |-> tick, err |-> FALSE ] >>
    ELSE IF outcome = "fail" /\ kind \in {"speed", "health"}
         THEN << [ tick |-> tick, err |-> TRUE ] >>
    ELSE << >>

\* Whether the promise of the invocation rejects.  When the store rejects the
\* save of the try block, the catch of runRealSpeedTest and the per-endpoint
\* catch of runApiHealthCheck await a second save, outside any try, which
\* rejects too; the catch of runRealSignalMonitoring only logs.
Escapes(kind, outcome) == outcome = "storefail" /\ kind \in {"speed", "health"}

\* Whether the invocation gets to `if (Date.now() >= endTime)`: the check is
\* the last statement of the try block, except in runApiHealthCheck, where it
\* follows the per-endpoint try/catch (and is reached unless the catch threw).
ReachesEndCheck(kind, outcome) ==
    outcome = "ok" \/ (kind = "health" /\ outcome = "fail")

\* Only the speed loop broadcasts test_complete.
PublishesComplete(kind) == kind = "speed"

\* run<Kind>(testId, ...): setInterval, then testingEngine.addActiveTest.
runTest(t, kind, d, p) ==
    /\ timers' = Append(timers, NewTimer(t, kind, p, now + d))
    /\ addActiveTest(t, Len(timers) + 1)

\* POST /speed, /signal, /quality, /health: a fresh test id, saveTestConfig
\* (status 'running'), then the run function, which is not awaited.
PostTest(t, kind, d, p) ==
    /\ Fresh(t)
    /\ Len(timers) < MaxTimers
    /\ dbStatus' = [ dbStatus EXCEPT ![t] = "running" ]
    /\ runTest(t, kind, d, p)
    /\ ret' = NoRet
    /\ UNCHANGED << testQueue, maxConcurrentTests, queueProcessor, initialized,
                    engineTimers, inflight, now, dbResults, events, executed,
                    scheduledTests, pc, unhandled, runs >>

\* A sampling interval fires: a new invocation of the async callback starts
\* and suspends at its first await (the sample acquisition).
TimerFire(h) ==
    /\ h \in ActiveTimers
    /\ timers[h].kind \in Kinds
    /\ timers[h].nextFire <= now
    /\ Cardinality(inflight) < MaxInFlight
    /\ timers' = [ timers EXCEPT ![h].nextFire = @ + timers[h].period,
                                 ![h].ticks = @ + 1 ]
    /\ inflight' = inflight \cup { [ h |-> h, tick |-> timers[h].ticks + 1 ] }
    /\ ret' = NoRet
    /\ UNCHANGED << activeTests, testQueue, maxConcurrentTests, stats,
                    queueProcessor, initialized, engineTimers, now, dbStatus,
                    dbResults, events, executed,
                    scheduledTests, pc, unhandled, runs >>

\* The acquisition of invocation i settles with outcome o and the rest of the
\* callback runs: save, broadcast, end-of-duration check.
TickFinish(i, o) ==
    LET h    == i.h
        kind == timers[h].kind
        t    == timers[h].test
        done == ReachesEndCheck(kind, o) /\ now >= timers[h].endTime
        upd  == IF o = "ok" THEN Publish(events, t, "update", i.tick) ELSE events
    IN  /\ i \in inflight
        /\ inflight' = inflight \ {i}
        /\ dbResults' = saveTestResult(dbResults, t, SampleRows(kind, o, i.tick))
        /\ events' = IF done /\ PublishesComplete(kind)
                     THEN Publish(upd, t, "complete", i.tick) ELSE upd
        /\ timers' = IF done THEN ClearInterval(timers, h) ELSE timers
        /\ dbStatus' = IF done THEN updateTestStatus(dbStatus, t, "completed")
                       ELSE dbStatus
        /\ unhandled' = IF Escapes(kind, o) THEN unhandled \cup {t} ELSE unhandled
        /\ ret' = NoRet
        /\ UNCHANGED << activeTests, testQueue, maxConcurrentTests, stats,
                        queueProcessor, initialized, engineTimers, now, executed,
                        scheduledTests, pc, runs >>

\* The route module whose engine instance a run function registers with:
\* routes/api.js and routes/network.js each make a TestingEngine of their own.
Registrar(kind) == IF kind \in {"health", "report"} THEN "api" ELSE "network"

\* The ids in the running-table of the engine instance of module m.  (Test ids
\* are UUIDs, so the tables of the instances are disjoint; activeTests is
\* their union.)
TableOf(m) ==
    { t \in DOMAIN activeTests :
        Registrar(timers[activeTests[t].intervalId].kind) = m }

\* DELETE /test/:testId of routes/network.js: stopTest on the engine instance
\* of that module, then updateTestStatus(testId, 'stopped').
DeleteTest(t) ==
    /\ IF t \in DOMAIN activeTests /\ t \notin TableOf("network")
       THEN stopTestNotFound(t)
       ELSE stopTest(t)
    /\ dbStatus' = updateTestStatus(dbStatus, t, "stopped")
    /\ ret' = NoRet
    /\ UNCHANGED << testQueue, maxConcurrentTests, queueProcessor, initialized,
                    engineTimers, inflight, now, dbResults, events, executed,
                    scheduledTests, pc, unhandled, runs >>

\* In Spec every test samples once per time unit.
UnitPeriod == {1}

Next ==
    \/ \E t \in TestIds, kind \in Kinds :
          \E d \in Durations(kind), p \in UnitPeriod : PostTest(t, kind, d, p)
    \/ \E h \in DOMAIN timers : TimerFire(h)
    \/ \E i \in inflight, o \in Outcomes : TickFinish(i, o)
    \/ \E t \in TestIds : DeleteTest(t)
    \/ AdvanceTime(MaxTime)

Spec == Init /\ [][Next]_vars

\* ------------------------------------------- statistics and the monitor
\* A JavaScript number as the fraction num / den.  A division by zero gives
\* den = 0, which stands for NaN and for Infinity.
Div(a, b) == [ num |-> a, den |-> b ]

Whole(n) == Div(n, 1)

Finite(x) == x.den # 0

\* Math.round of a number that is not negative; NaN and Infinity stay.
Round(x) ==
    IF Finite(x) THEN Whole((2 * x.num + x.den) \div (2 * x.den)) ELSE x

\* Mutant of getStats: the divisions are made without the testsExecuted > 0
\* test.
getStatsUnguarded ==
    [ testsExecuted |-> stats.testsExecuted,
      testsSuccessful |-> stats.testsSuccessful,
      testsFailed |-> stats.testsFailed,
      totalRunTime |-> stats.totalRunTime,
      activeTests |-> Cardinality(DOMAIN activeTests),
      queuedTests |-> Len(testQueue),
      scheduledTests |-> Cardinality(DOMAIN scheduledTests),
      successRate |-> Div(stats.testsSuccessful * 100, stats.testsExecuted),
      averageRunTime |-> Round(Div(stats.totalRunTime, stats.testsExecuted)) ]

\* getStats(): the counters, the three sizes, the success rate in percent and
\* the rounded average runtime.  (Runtimes are in units of the model's clock,
\* where the code has milliseconds and reports seconds.)
getStats ==
    LET avgRunTime == IF stats.testsExecuted > 0
                      THEN Div(stats.totalRunTime, stats.testsExecuted)
                      ELSE Whole(0)
    IN  [ testsExecuted |-> stats.testsExecuted,
          testsSuccessful |-> stats.testsSuccessful,
          testsFailed |-> stats.testsFailed,
          totalRunTime |-> stats.totalRunTime,
          activeTests |-> Cardinality(DOMAIN activeTests),
          queuedTests |-> Len(testQueue),
          scheduledTests |-> Cardinality(DOMAIN scheduledTests),
          successRate |-> IF stats.testsExecuted > 0
                          THEN Div(stats.testsSuccessful * 100,
                                   stats.testsExecuted)
                          ELSE Whole(0),
          averageRunTime |-> Round(avgRunTime) ]

\* getActiveTestCount()
getActiveTestCount == Cardinality(DOMAIN activeTests)

\* getActiveTests(): the entries of the running-table.
getActiveTests == { activeTests[t] : t \in DOMAIN activeTests }

\* getTestById(testId): the entry, or undefined.
getTestById(t) ==
    IF t \in DOMAIN activeTests THEN activeTests[t] ELSE "undefined"

\* Queue depth above which the monitor warns.
QueueWarnDepth == 50

\* The warnings of one firing of the performance monitor; heapHigh tells
\* whether process.memoryUsage() reports more than 500 MB of heap.
monitorWarnings(heapHigh) ==
    LET st == getStats
    IN  { w \in {"load", "queue", "memory"} :
            \/ w = "load" /\ st.activeTests * 10 > maxConcurrentTests * 9
            \/ w = "queue" /\ st.queuedTests > QueueWarnDepth
            \/ w = "memory" /\ heapHigh }

\* Mutant of Getter: the call also takes the head off the queue.
GetterDraining(op, arg, val) ==
    /\ pc \in {"idle", "done"}
    /\ ret' = [ op |-> op, arg |-> arg, val |-> val ]
    /\ testQueue' = IF Len(testQueue) > 0 THEN Tail(testQueue) ELSE testQueue
    /\ UNCHANGED << activeTests, maxConcurrentTests, stats,
                    queueProcessor, initialized, timers, engineTimers, inflight,
                    now, dbStatus, dbResults, events, executed, scheduledTests,
                    pc, unhandled, runs >>

\* A call that only returns a value.
Getter(op, arg, val) ==
    /\ pc \in {"idle", "done"}
    /\ ret' = [ op |-> op, arg |-> arg, val |-> val ]
    /\ UNCHANGED << activeTests, testQueue, maxConcurrentTests, stats,
                    queueProcessor, initialized, timers, engineTimers, inflight,
                    now, dbStatus, dbResults, events, executed, scheduledTests,
                    pc, unhandled, runs >>

CallGetStats == Getter("getStats", 0, getStats)

CallGetActiveTestCount == Getter("getActiveTestCount", 0, getActiveTestCount)

CallGetActiveTests == Getter("getActiveTests", 0, getActiveTests)

CallGetTestById(t) == Getter("getTestById", t, getTestById(t))

\* The performance-monitor interval fires: the warnings go to the console.
MonitorTick(heapHigh) ==
    /\ \E h \in DOMAIN engineTimers :
           engineTimers[h].kind = "monitor" /\ engineTimers[h].active
    /\ Getter("monitor", 0, monitorWarnings(heapHigh))

StatsNext ==
    \/ pc \in {"idle", "done"} /\ \E t \in TestIds : CallAddActiveTest(t)
    \/ pc \in {"idle", "done"} /\ \E t \in TestIds : CallStopTest(t)
    \/ pc \in {"idle", "done"} /\ CallStopAllTests
    \/ pc \in {"idle", "done"} /\ CallInitialize
    \/ pc \in {"idle", "done"} /\ \E t \in TestIds : Enqueue(t)
    \/ pc \in {"idle", "done"} /\ QueueProcessorTick
    \/ pc \in {"idle", "done"} /\ AdvanceTime(MaxTime)
    \/ \E heapHigh \in BOOLEAN : MonitorTick(heapHigh)
    \/ ShutdownBegin
    \/ ShutdownStopAll
    \/ ShutdownRelease

StatsSpec == Init /\ [][StatsNext]_vars

ReadNext ==
    \/ \E t \in TestIds : CallAddActiveTest(t)
    \/ \E t \in TestIds : CallStopTest(t)
    \/ CallInitialize
    \/ \E t \in TestIds : Enqueue(t)
    \/ \E sid \in ScheduleIds : ScheduleTest(sid)
    \/ \E heapHigh \in BOOLEAN : MonitorTick(heapHigh)
    \/ CallGetStats
    \/ CallGetActiveTestCount
    \/ CallGetActiveTests
    \/ \E t \in TestIds : CallGetTestById(t)

ReadSpec == Init /\ [][ReadNext]_vars

\* ------------------------------------------- the cap changed at runtime
\* maxConcurrentTests is given a new value while the engine runs.
SetMaxConcurrentTests(n) ==
    /\ n # maxConcurrentTests
    /\ maxConcurrentTests' = n
    /\ ret' = [ op |-> "setMaxConcurrentTests", arg |-> n, val |-> 0 ]
    /\ UNCHANGED << activeTests, testQueue, stats, queueProcessor, initialized,
                    timers, engineTimers, inflight, now, dbStatus, dbResults,
                    events, executed, scheduledTests, pc, unhandled, runs >>

CapNext ==
    \/ \E t \in TestIds : CallAddActiveTest(t)
    \/ \E t \in TestIds : CallStopTest(t)
    \/ CallInitialize
    \/ \E t \in TestIds : Enqueue(t)
    \/ QueueProcessorTick
    \/ \E n \in 1..(MaxCap + 1) : SetMaxConcurrentTests(n)

CapSpec == Init /\ [][CapNext]_vars

\* ------------------------------------------- services/testing-engine.js
\* The class of services/testing-engine.js has the running-table, the queue
\* and the cap; it keeps no statistics, no dispatcher handle and no
\* `initialized` flag.

\* initialize(): logs and calls startQueueProcessor(), which sets an interval
\* and drops the handle.
BasicInitialize ==
    /\ Len(engineTimers) < MaxTimers
    /\ engineTimers' = Append(engineTimers, EngineTimer("dispatcher"))
    /\ ret' = NoRet
    /\ UNCHANGED << activeTests, testQueue, maxConcurrentTests, stats,
                    queueProcessor, initialized, timers, inflight, now,
                    dbStatus, dbResults, events, executed, scheduledTests, pc,
                    unhandled, runs >>

\* addActiveTest(testId, intervalId): Map.set.
BasicAddActiveTest(t) ==
    /\ Len(timers) < MaxTimers
    /\ t \in Used \/ Fresh(t)
    /\ timers' = Append(timers, CallerTimer(t))
    /\ activeTests' = MapSet(activeTests, t,
                          [ intervalId |-> Len(timers) + 1, startTime |-> now,
                            status |-> "running" ])
    /\ ret' = NoRet
    /\ UNCHANGED << testQueue, maxConcurrentTests, stats, queueProcessor,
                    initialized, engineTimers, inflight, now, dbStatus,
                    dbResults, events, executed, scheduledTests, pc, unhandled,
                    runs >>

\* stopTest(testId): clearInterval and Map.delete for a resident test, true;
\* false otherwise.
BasicStopTest(t) ==
    /\ IF t \in DOMAIN activeTests
       THEN /\ timers' = ClearInterval(timers, activeTests[t].intervalId)
            /\ activeTests' = MapDelete(activeTests, t)
       ELSE UNCHANGED << timers, activeTests >>
    /\ ret' = [ op |-> "stopTest", arg |-> t, val |-> t \in DOMAIN activeTests ]
    /\ UNCHANGED << testQueue, maxConcurrentTests, stats, queueProcessor,
                    initialized, engineTimers, inflight, now, dbStatus,
                    dbResults, events, executed, scheduledTests, pc, unhandled,
                    runs >>

\* One of the dispatcher intervals fires.
BasicQueueProcessorTick(h) ==
    /\ h \in DOMAIN engineTimers
    /\ engineTimers[h].kind = "dispatcher"
    /\ engineTimers[h].active
    /\ queueProcessorTick
    /\ ret' = NoRet
    /\ UNCHANGED << activeTests, maxConcurrentTests, stats, queueProcessor,
                    initialized, timers, engineTimers, inflight, now, dbStatus,
                    dbResults, events, scheduledTests, pc, unhandled, runs >>

BasicNext ==
    \/ BasicInitialize
    \/ \E t \in TestIds : BasicAddActiveTest(t)
    \/ \E t \in TestIds : BasicStopTest(t)
    \/ \E t \in TestIds : Enqueue(t)
    \/ \E h \in DOMAIN engineTimers : BasicQueueProcessorTick(h)

BasicSpec == Init /\ [][BasicNext]_vars

\* ------------------------------------------- a backlog for the dispatcher
\* Configurations are queued in this order.
QueueOrder == << "A", "B", "C" >>

\* The next configuration of QueueOrder is put on the engine's queue.
EnqueueConfig(c) ==
    LET n == Len(executed) + Len(testQueue)
    IN  /\ Len(testQueue) < MaxBacklog
        /\ n < Len(QueueOrder)
        /\ c = QueueOrder[n + 1]
        /\ testQueue' = Append(testQueue, c)
        /\ ret' = NoRet
        /\ UNCHANGED << activeTests, maxConcurrentTests, stats, queueProcessor,
                        initialized, timers, engineTimers, inflight, now,
                        dbStatus, dbResults, events, executed, scheduledTests,
                        pc, unhandled, runs >>

QueueNext ==
    \/ \E t \in TestIds : CallAddActiveTest(t)
    \/ \E t \in TestIds : CallStopTest(t)
    \/ CallInitialize
    \/ \E c \in Range(QueueOrder) : EnqueueConfig(c)
    \/ QueueProcessorTick

QueueSpec == Init /\ [][QueueNext]_vars

\* ------------------------------------------- reading the result store
\* The orders in which `ORDER BY timestamp DESC` may deliver the rows: a
\* later timestamp first, rows of one timestamp in any order.
Orderings(rows) ==
    { p \in [ 1..Len(rows) -> 1..Len(rows) ] :
        /\ \A i, j \in 1..Len(rows) : i # j => p[i] # p[j]
        /\ \A i, j \in 1..Len(rows) :
               i < j => rows[p[i]].ts >= rows[p[j]].ts }

\* getTestResults(testId, limit): SELECT * FROM test_results WHERE test_id = ?
\* ORDER BY timestamp DESC LIMIT ?  -- the results the query may give.
getTestResults(res, t, limit) ==
    LET rows == res[t]
        n == IF limit < Len(rows) THEN limit ELSE Len(rows)
    IN  { [ i \in 1..n |-> rows[p[i]] ] : p \in Orderings(rows) }

\* saveTestResult(testId, result) for the next sample of test t; the timestamp
\* column defaults to CURRENT_TIMESTAMP, which has a resolution of one second
\* (in StoreSpec the clock counts seconds).
StoreSave(t) ==
    /\ Len(dbResults[t]) < MaxSamples
    /\ dbResults' = saveTestResult(dbResults, t,
                        << [ tick |-> Len(dbResults[t]) + 1, err |-> FALSE,
                             ts |-> now ] >>)
    /\ ret' = NoRet
    /\ UNCHANGED << activeTests, testQueue, maxConcurrentTests, stats,
                    queueProcessor, initialized, timers, engineTimers, inflight,
                    now, dbStatus, events, executed, scheduledTests, pc,
                    unhandled, runs >>

StoreGet(t, limit) ==
    /\ \E r \in getTestResults(dbResults, t, limit) :
           ret' = [ op |-> "getTestResults", arg |-> << t, limit >>, val |-> r ]
    /\ UNCHANGED << activeTests, testQueue, maxConcurrentTests, stats,
                    queueProcessor, initialized, timers, engineTimers, inflight,
                    now, dbStatus, dbResults, events, executed, scheduledTests,
                    pc, unhandled, runs >>

StoreNext ==
    \/ \E t \in TestIds : StoreSave(t)
    \/ \E t \in TestIds, limit \in 1..(MaxSamples + 1) : StoreGet(t, limit)
    \/ AdvanceTime(MaxTime)

StoreSpec == Init /\ [][StoreNext]_vars

\* ------------------------------------------- a stopTest that throws
\* Mutant of ClearTable: the final this.activeTests.clear() is left out.
KeepTable(m) == m

\* this.activeTests.clear()
ClearTable(m) == << >>

\* stopAllTests() when, for the tests in F, the try block of stopTest throws
\* at `test.startTime.getTime()` (the entries are handed out by getActiveTests
\* and getTestById, so a caller can have changed them): the interval of such a
\* test is already cleared, the catch logs and returns false, the runtime is
\* not added and the entry is not deleted.  The loop goes on, the table is
\* cleared at the end.  arg carries testIds.length, which the method logs
\* beside the count it returns.
stopAllTestsFailing(F) ==
    LET testIds == DOMAIN activeTests
        stopped == testIds \ F
    IN  /\ timers' = ClearAll(timers, { activeTests[t].intervalId : t \in testIds })
        /\ stats' = [ stats EXCEPT
                        !.totalRunTime = @ + SumRuntime(activeTests, stopped) ]
        /\ activeTests' = ClearTable([ t \in testIds \cap F |-> activeTests[t] ])
        /\ ret' = [ op |-> "stopAllTests", arg |-> Cardinality(testIds),
                    val |-> Cardinality(stopped) ]

\* shutdown(), second statement, with the stops of the tests in F throwing.
ShutdownStopAllFailing(F) ==
    /\ pc = "stopAll"
    /\ F \subseteq DOMAIN activeTests
    /\ stopAllTestsFailing(F)
    /\ pc' = "release"
    /\ UNCHANGED << testQueue, maxConcurrentTests, queueProcessor, initialized,
                    engineTimers, inflight, now, dbStatus, dbResults, events,
                    executed, scheduledTests, unhandled, runs >>

FaultNext ==
    \/ pc \in {"idle", "done"} /\ \E t \in TestIds : CallAddActiveTest(t)
    \/ pc \in {"idle", "done"} /\ \E sid \in ScheduleIds : ScheduleTest(sid)
    \/ pc \in {"idle", "done"} /\ AdvanceTime(MaxTime)
    \/ ShutdownBegin
    \/ \E F \in SUBSET TestIds : ShutdownStopAllFailing(F)
    \/ ShutdownRelease

FaultSpec == Init /\ [][FaultNext]_vars

\* ------------------------------------------------- the health endpoints
\* globalState.activeTests of server.js: a Map made when the module loads,
\* which no code of the program writes.
globalActiveTests == << >>

\* The activeTests value of GET /api/health and GET /api/dashboard.
healthActiveTests == Cardinality(DOMAIN globalActiveTests)

\* ------------------------------------------------- process termination
\* process.on('SIGTERM'): wss.close(), server.close(() => process.exit(0)) and
\* a 10 s timeout that calls process.exit(1).  No method of the testing engine
\* is called.
Sigterm ==
    /\ pc \in {"idle", "done"}
    /\ pc' = "closing"
    /\ ret' = NoRet
    /\ UNCHANGED << activeTests, testQueue, maxConcurrentTests, stats,
                    queueProcessor, initialized, timers, engineTimers, inflight,
                    now, dbStatus, dbResults, events, executed, scheduledTests,
                    unhandled, runs >>

\* process.exit, from the callback of server.close or from the 10 s timeout.
ProcessExit ==
    /\ pc = "closing"
    /\ pc' = "exited"
    /\ ret' = NoRet
    /\ UNCHANGED << activeTests, testQueue, maxConcurrentTests, stats,
                    queueProcessor, initialized, timers, engineTimers, inflight,
                    now, dbStatus, dbResults, events, executed, scheduledTests,
                    unhandled, runs >>

\* The program with the ways of stopping every test: requests are served
\* while the process is up, the timers run until it exits.
TeardownNext ==
    \/ /\ pc \in {"idle", "done"}
       /\ \E t \in TestIds, kind \in Kinds :
             \E d \in Durations(kind), p \in UnitPeriod : PostTest(t, kind, d, p)
    \/ pc \in {"idle", "done", "closing"} /\ \E h \in DOMAIN timers : TimerFire(h)
    \/ /\ pc \in {"idle", "done", "closing"}
       /\ \E i \in inflight, o \in Outcomes : TickFinish(i, o)
    \/ pc \in {"idle", "done", "closing"} /\ AdvanceTime(MaxTime)
    \/ pc \in {"idle", "done"} /\ CallStopAllTests
    \/ ShutdownBegin
    \/ ShutdownStopAll
    \/ ShutdownRelease
    \/ Sigterm
    \/ ProcessExit

TeardownSpec == Init /\ [][TeardownNext]_vars

\* One test followed over a longer horizon.
LoopIds == { IdOrder[1] }

LoopNext ==
    \/ \E t \in LoopIds, kind \in Kinds :
          \E d \in Durations(kind), p \in Periods(kind) : PostTest(t, kind, d, p)
    \/ \E h \in DOMAIN timers : TimerFire(h)
    \/ \E i \in inflight, o \in StoreOutcomes : TickFinish(i, o)
    \/ \E t \in LoopIds : DeleteTest(t)
    \/ AdvanceTime(MaxLoopTime)

LoopSpec == Init /\ [][LoopNext]_vars

\* ------------------------------------------- deleting a test's results
\* The running-table of `new TestingEngine()`.
NewEngineTable == << >>

\* DELETE /:testId of routes/results.js, for a test that has a configuration
\* row: when the status is running, stopTest on a TestingEngine made for the
\* request; then the rows of the test and its configuration row are deleted.
DeleteResults(t) ==
    /\ dbStatus[t] # "none"
    /\ IF dbStatus[t] = "running" /\ t \in DOMAIN NewEngineTable
       THEN stopTestFound(t)
       ELSE UNCHANGED << activeTests, timers, stats >>
    /\ dbResults' = [ dbResults EXCEPT ![t] = << >> ]
    /\ dbStatus' = [ dbStatus EXCEPT ![t] = "none" ]
    /\ ret' = [ op |-> "deleteResults", arg |-> t, val |-> TRUE ]
    /\ UNCHANGED << testQueue, maxConcurrentTests, queueProcessor, initialized,
                    engineTimers, inflight, now, events, executed,
                    scheduledTests, pc, unhandled, runs >>

ResultsNext ==
    \/ \E t \in TestIds, kind \in Kinds :
          \E d \in Durations(kind), p \in UnitPeriod : PostTest(t, kind, d, p)
    \/ \E h \in DOMAIN timers : TimerFire(h)
    \/ \E i \in inflight, o \in Outcomes : TickFinish(i, o)
    \/ \E t \in TestIds : DeleteTest(t)
    \/ \E t \in TestIds : DeleteResults(t)
    \/ AdvanceTime(MaxTime)

ResultsSpec == Init /\ [][ResultsNext]_vars

\* ------------------------------------------- loops with prompt samples
\* The acquisition of invocation i succeeds and the callback finishes before
\* the interval is due again.
TickFinishPrompt(i) ==
    /\ i \in inflight
    /\ timers[i.h].nextFire > now
    /\ TickFinish(i, "ok")

\* The clock advances once every started invocation has finished.
AdvanceTimePrompt ==
    /\ inflight = {}
    /\ AdvanceTime(MaxLoopTime)

PromptNext ==
    \/ \E t \in TestIds, kind \in Kinds :
          \E d \in Durations(kind), p \in Periods(kind) : PostTest(t, kind, d, p)
    \/ \E h \in DOMAIN timers : TimerFire(h)
    \/ \E i \in inflight : TickFinishPrompt(i)
    \/ AdvanceTimePrompt

PromptSpec == Init /\ [][PromptNext]_vars

\* ------------------------------------------------------- the load test
\* setTimeout(() => workers.push(createLoadTestWorker(...)), i * rampUpInterval)
\* for worker i of c, with rampUpInterval = rampUp * 1000 / concurrency.
SpawnTimeout(t, i, c, r, endTime) ==
    [ test |-> t, kind |-> "spawn", period |-> 0, endTime |-> endTime,
      nextFire |-> now + ((i * r) \div c), active |-> TRUE, ticks |-> 0 ]

\* runLoadTest(testId, config): one timeout per worker, then the report
\* interval (every 5000 ms), the only handle passed to addActiveTest.
runLoadTest(t, d, c, r) ==
    /\ timers' = timers \o [ k \in 1..c |-> SpawnTimeout(t, k - 1, c, r, now + d) ]
                        \o << NewTimer(t, "report", 1, now + d) >>
    /\ addActiveTest(t, Len(timers) + c + 1)

\* POST /load: a fresh test id, saveTestConfig, runLoadTest (not awaited).
PostLoadTest(t, d, c, r) ==
    /\ Fresh(t)
    /\ Len(timers) + 2 * c + 1 <= MaxTimers
    /\ dbStatus' = [ dbStatus EXCEPT ![t] = "running" ]
    /\ runLoadTest(t, d, c, r)
    /\ ret' = NoRet
    /\ UNCHANGED << testQueue, maxConcurrentTests, queueProcessor, initialized,
                    engineTimers, inflight, now, dbResults, events, executed,
                    scheduledTests, pc, unhandled, runs >>

\* A ramp-up timeout fires: createLoadTestWorker sets the worker's interval
\* (every 500 to 1500 ms, one time unit here).  The handle goes to the local
\* array `workers` and nowhere else.
SpawnFire(h) ==
    /\ h \in ActiveTimers
    /\ timers[h].kind = "spawn"
    /\ timers[h].nextFire <= now
    /\ timers' = Append(ClearInterval(timers, h),
                        NewTimer(timers[h].test, "worker", 1, timers[h].endTime))
    /\ ret' = NoRet
    /\ UNCHANGED << activeTests, testQueue, maxConcurrentTests, stats,
                    queueProcessor, initialized, engineTimers, inflight, now,
                    dbStatus, dbResults, events, executed,
                    scheduledTests, pc, unhandled, runs >>

\* A worker interval fires: past endTime it clears itself and returns;
\* otherwise a request starts and the invocation suspends at `await axios`.
WorkerFire(h) ==
    /\ h \in ActiveTimers
    /\ timers[h].kind = "worker"
    /\ timers[h].nextFire <= now
    /\ IF now >= timers[h].endTime
       THEN /\ timers' = ClearInterval(timers, h)
            /\ UNCHANGED inflight
       ELSE /\ Cardinality(inflight) < MaxInFlight
            /\ timers' = [ timers EXCEPT ![h].nextFire = @ + timers[h].period,
                                         ![h].ticks = @ + 1 ]
            /\ inflight' = inflight \cup { [ h |-> h, tick |-> timers[h].ticks + 1 ] }
    /\ ret' = NoRet
    /\ UNCHANGED << activeTests, testQueue, maxConcurrentTests, stats,
                    queueProcessor, initialized, engineTimers, now, dbStatus,
                    dbResults, events, executed,
                    scheduledTests, pc, unhandled, runs >>

\* The request of worker invocation i settles: the result (from the try or
\* from the catch) is pushed to `results` and saved with saveApiTestResult.
WorkerFinish(i, o) ==
    /\ i \in inflight
    /\ timers[i.h].kind = "worker"
    /\ inflight' = inflight \ {i}
    /\ dbResults' = saveTestResult(dbResults, timers[i.h].test,
                                   << [ tick |-> i.tick, err |-> o = "fail" ] >>)
    /\ ret' = NoRet
    /\ UNCHANGED << activeTests, testQueue, maxConcurrentTests, stats,
                    queueProcessor, initialized, timers, engineTimers, now,
                    dbStatus, events, executed,
                    scheduledTests, pc, unhandled, runs >>

\* The report interval fires.  Past endTime: clear itself, save the summary
\* (a row with tick 0), set the status to completed, broadcast
\* load_test_complete; before: broadcast load_test_update.
ReportFire(h) ==
    LET t    == timers[h].test
        done == now >= timers[h].endTime
        tm   == [ timers EXCEPT ![h].nextFire = @ + timers[h].period,
                                ![h].ticks = @ + 1 ]
    IN  /\ h \in ActiveTimers
        /\ timers[h].kind = "report"
        /\ timers[h].nextFire <= now
        /\ timers' = IF done THEN ClearInterval(tm, h) ELSE tm
        /\ dbResults' = IF done
                        THEN saveTestResult(dbResults, t,
                                            << [ tick |-> 0, err |-> FALSE ] >>)
                        ELSE dbResults
        /\ dbStatus' = IF done THEN updateTestStatus(dbStatus, t, "completed")
                       ELSE dbStatus
        /\ events' = Publish(events, t, IF done THEN "complete" ELSE "update",
                             timers[h].ticks + 1)
        /\ ret' = NoRet
        /\ UNCHANGED << activeTests, testQueue, maxConcurrentTests, stats,
                        queueProcessor, initialized, engineTimers, inflight, now,
                        executed, scheduledTests, pc, unhandled, runs >>

\* The load test: POST /load, its timers, and stopTest on the engine that
\* holds the registration.
LoadNext ==
    \/ \E t \in LoopIds, d \in Durations("load") :
          \E c \in 1..MaxWorkers, r \in 0..MaxRampUp : PostLoadTest(t, d, c, r)
    \/ \E h \in DOMAIN timers : SpawnFire(h)
    \/ \E h \in DOMAIN timers : WorkerFire(h)
    \/ \E i \in inflight, o \in Outcomes : WorkerFinish(i, o)
    \/ \E h \in DOMAIN timers : ReportFire(h)
    \/ \E t \in LoopIds : CallStopTest(t)
    \/ AdvanceTime(MaxLoopTime)

LoadSpec == Init /\ [][LoadNext]_vars

\* ---------------------------------------------------- the roaming test
\* Outcomes of one pass of the region loop: the endpoints answer ("ok"), an
\* endpoint probe throws and is recorded by the inner catch ("fail"), or the
\* saveTestResult of the pass rejects ("savefail").
RegionOutcomes == {"ok", "fail", "savefail"}

\* POST /roaming: a fresh test id, saveTestConfig, runEnhancedRoamingTest (not
\* awaited, no catch attached).  The function sets no timer and does not call
\* addActiveTest; n is the number of target regions.
PostRoaming(t, n) ==
    /\ Fresh(t)
    /\ dbStatus' = [ dbStatus EXCEPT ![t] = "running" ]
    /\ runs' = MapSet(runs, t, [ region |-> 0, regions |-> n ])
    /\ ret' = NoRet
    /\ UNCHANGED << activeTests, testQueue, maxConcurrentTests, stats,
                    queueProcessor, initialized, timers, engineTimers, inflight,
                    now, dbResults, events, executed, scheduledTests, pc,
                    unhandled >>

\* The outer catch of runEnhancedRoamingTest: updateTestStatus(testId,
\* 'failed'), then `throw error`, which rejects the promise nobody holds.
roamingCatch(t) ==
    /\ dbStatus' = updateTestStatus(dbStatus, t, "failed")
    /\ unhandled' = unhandled \cup {t}
    /\ runs' = MapDelete(runs, t)
    /\ UNCHANGED << dbResults, events >>

\* One pass of `for (const region of regions)`: probe the endpoints, save the
\* region result, broadcast roaming_update.
RegionFinish(t, o) ==
    /\ t \in DOMAIN runs
    /\ runs[t].region < runs[t].regions
    /\ IF o = "savefail"
       THEN roamingCatch(t)
       ELSE /\ dbResults' = saveTestResult(dbResults, t,
                                << [ tick |-> runs[t].region + 1,
                                     err |-> o = "fail" ] >>)
            /\ events' = Publish(events, t, "update", runs[t].region + 1)
            /\ runs' = [ runs EXCEPT ![t].region = @ + 1 ]
            /\ UNCHANGED << dbStatus, unhandled >>
    /\ ret' = NoRet
    /\ UNCHANGED << activeTests, testQueue, maxConcurrentTests, stats,
                    queueProcessor, initialized, timers, engineTimers, inflight,
                    now, executed, scheduledTests, pc >>

\* After the last region: save the overall result (a row with tick 0), set
\* the status to completed, broadcast roaming_complete.
RoamingFinish(t, o) ==
    /\ t \in DOMAIN runs
    /\ runs[t].region = runs[t].regions
    /\ IF o = "savefail"
       THEN roamingCatch(t)
       ELSE /\ dbResults' = saveTestResult(dbResults, t,
                                << [ tick |-> 0, err |-> FALSE ] >>)
            /\ dbStatus' = updateTestStatus(dbStatus, t, "completed")
            /\ events' = Publish(events, t, "complete", 0)
            /\ runs' = MapDelete(runs, t)
            /\ UNCHANGED unhandled
    /\ ret' = NoRet
    /\ UNCHANGED << activeTests, testQueue, maxConcurrentTests, stats,
                    queueProcessor, initialized, timers, engineTimers, inflight,
                    now, executed, scheduledTests, pc >>

\* The roaming tests: POST /roaming, the region loop, DELETE /test/:testId.
RoamNext ==
    \/ \E t \in TestIds, n \in 0..MaxRegions : PostRoaming(t, n)
    \/ \E t \in TestIds, o \in RegionOutcomes : RegionFinish(t, o)
    \/ \E t \in TestIds, o \in {"ok", "savefail"} : RoamingFinish(t, o)
    \/ \E t \in TestIds : DeleteTest(t)

RoamSpec == Init /\ [][RoamNext]_vars

\* ====================================================================
\* Properties
\* ====================================================================
\* Invocations of the callback of interval h that have not finished.
InFlightOf(fl, h) == { i \in fl : i.h = h }

\* C1 (EngineSpec): in every reachable state the running-table holds at most
\* maxConcurrentTests tests.
C1_ActiveWithinCap == Cardinality(DOMAIN activeTests) <= maxConcurrentTests

\* C2 (Spec): once maxConcurrentTests + 1 tests have been started and none
\* has stopped or finished, exactly maxConcurrentTests of them are resident
\* and exactly one is queued.
C2_OverflowIsQueued ==
    ( /\ stats.testsExecuted = maxConcurrentTests + 1
      /\ \A t \in TestIds : dbStatus[t] \in {"none", "running"} )
    => ( /\ Cardinality(DOMAIN activeTests) = maxConcurrentTests
         /\ Len(testQueue) = 1 )

\* C3 (EngineSpec): a dispatcher tick that finds a queued test and a table
\* below the cap takes the oldest test off the queue and makes it resident
\* with an active sampling interval.
C3_TickPromotes ==
    [][ ( /\ QueueProcessorTick
          /\ Len(testQueue) > 0
          /\ Cardinality(DOMAIN activeTests) < maxConcurrentTests )
        => LET q == Head(testQueue)
           IN  /\ testQueue' = Tail(testQueue)
               /\ q \in DOMAIN activeTests'
               /\ \E h \in DOMAIN timers' :
                      timers'[h].active /\ timers'[h].test = q ]_vars

\* C4 (LoopSpec): a test id is resident in the running-table if and only if
\* a sampling interval of that test is active.
C4_ResidentIffTimerActive ==
    \A t \in TestIds : (t \in DOMAIN activeTests) <=> (TimersOf(t) # {})

\* C5 (EngineSpec): addActiveTest for an id that is already resident leaves
\* the entry (timer handle, start time) and the statistics as they were, and
\* the interval of the first registration stays the one stopTest clears.
C5_NoDoubleRegistration ==
    [][ \A t \in TestIds :
          (t \in DOMAIN activeTests /\ CallAddActiveTest(t))
          => /\ activeTests' = activeTests
             /\ stats' = stats
             /\ \A h \in TimersOf(t) : activeTests'[t].intervalId = h ]_vars

C7_StopUnknown ==
    [][ \A t \in TestIds :
          (t \notin DOMAIN activeTests /\ CallStopTest(t))
          => /\ ret'.val = FALSE
             /\ UNCHANGED << activeTests, testQueue, timers, engineTimers,
                             stats, queueProcessor, maxConcurrentTests >> ]_vars

\* stopTest has returned false for an id while another test is resident
C7_Witness ==
    /\ ret.op = "stopTest"
    /\ ret.val = FALSE
    /\ ret.arg \notin DOMAIN activeTests
    /\ DOMAIN activeTests # {}
    /\ stats.testsExecuted > 0

C9_FailedTickRecorded ==
    [][ \A i \in inflight :
          TickFinish(i, "fail")
          => LET t == timers[i.h].test
             IN  /\ dbResults'[t] = Append(dbResults[t],
                                           [ tick |-> i.tick, err |-> TRUE ])
                 /\ timers'[i.h].active = timers[i.h].active
                 /\ (t \in DOMAIN activeTests) = (t \in DOMAIN activeTests')
                 /\ dbStatus'[t] = dbStatus[t] ]_vars

\* C10 (LoopSpec): when every tick of a running test has failed and a tick
\* finishes after the configured duration has elapsed, the persisted status
\* becomes completed, the interval is cleared, and the rows recorded are one
\* error row per finished tick.
C10_AlwaysFailingCompletes ==
    [][ \A i \in inflight :
          LET t == timers[i.h].test
          IN  ( /\ TickFinish(i, "fail")
                /\ timers[i.h].active
                /\ dbStatus[t] = "running"
                /\ now >= timers[i.h].endTime
                /\ \A k \in DOMAIN events[t] : events[t][k].type # "update" )
              => /\ dbStatus'[t] = "completed"
                 /\ ~ timers'[i.h].active
                 /\ \A k \in DOMAIN dbResults'[t] : dbResults'[t][k].err
                 /\ Len(dbResults'[t]) = timers'[i.h].ticks
                        - Cardinality(InFlightOf(inflight', i.h)) ]_vars

\* The <kind>_complete events among the events published for one test.
CompleteCount(ev) == Cardinality({ k \in DOMAIN ev : ev[k].type = "complete" })

\* C11 (LoopSpec): a tick that has taken its sample and finds the configured
\* duration elapsed leaves its interval cleared and the persisted status
\* completed, and exactly one complete event has then been published for the
\* test, whatever the kind of the test.
C11_CompletesOnce ==
    [][ \A i \in inflight :
          (TickFinish(i, "ok") /\ now >= timers[i.h].endTime)
          => LET t == timers[i.h].test
             IN  /\ ~ timers'[i.h].active
                 /\ dbStatus'[t] = "completed"
                 /\ CompleteCount(events'[t]) = 1 ]_vars

\* The duration interval h was configured with: its end time minus the time
\* of its setInterval.
DurationOf(h) ==
    timers[h].endTime
      - (timers[h].nextFire - timers[h].period * (timers[h].ticks + 1))

\* C12 (LoopSpec): for a test started with a duration of zero or less no
\* sampling invocation ever starts, no row is persisted and no update event
\* is published.
C12_ZeroDurationNoSample ==
    \A h \in DOMAIN timers :
        (timers[h].kind \in Kinds /\ DurationOf(h) <= 0)
        => /\ timers[h].ticks = 0
           /\ dbResults[timers[h].test] = << >>
           /\ \A k \in DOMAIN events[timers[h].test] :
                  events[timers[h].test][k].type # "update"

\* C13 (LoopSpec): at most one invocation of the callback of an interval is
\* in flight.
C13_OneInFlight ==
    \A h \in DOMAIN timers : Cardinality(InFlightOf(inflight, h)) <= 1

\* The ticks recorded in a sequence of rows or events are in firing order.
Ascending(seq) ==
    \A j, k \in DOMAIN seq : j < k => seq[j].tick < seq[k].tick

\* C14 (LoopSpec): the rows persisted for a test and the update events
\* published for it are in the order in which their ticks fired.
C14_TickOrder ==
    \A t \in TestIds :
        /\ Ascending(dbResults[t])
        /\ Ascending(SelectSeq(events[t], LAMBDA e : e.type = "update"))

\* C15 (LoadSpec): a sampling invocation starts only for a test that is in
\* the running-table: once stopTest has removed the test, no interval of the
\* test starts another request.
C15_NoTickAfterStop ==
    [][ \A i \in inflight' \ inflight :
          timers[i.h].test \in DOMAIN activeTests ]_vars

C17_StoreFailureContained ==
    [][ \A i \in inflight :
          TickFinish(i, "storefail")
          => /\ unhandled' = unhandled
             /\ dbResults' = dbResults
             /\ timers' = timers
             /\ UNCHANGED << activeTests, stats, testQueue, dbStatus >> ]_vars

\* C18 (RoamSpec): the persisted status of a test changes to failed only
\* while no successful sample of the test has been persisted.
C18_FailedOnlyBeforeFirstSample ==
    [][ \A t \in TestIds :
          (dbStatus'[t] = "failed" /\ dbStatus[t] # "failed")
          => \A k \in DOMAIN dbResults[t] : dbResults[t][k].err ]_vars

\* C19 (ShutdownSpec): within a shutdown() call the dispatcher interval is
\* cleared before any resident test is stopped and the table is empty, with
\* every registered interval cleared, before any scheduled job is released;
\* and once a shutdown() has begun no dispatcher interval is active any more
\* and no test is taken off the queue.
C19_ShutdownOrdered ==
    [][ /\ ShutdownBegin => UNCHANGED << activeTests, timers, scheduledTests >>
        /\ pc = "stopAll" => ~ DispatcherActive
        /\ ShutdownStopAll => UNCHANGED scheduledTests
        /\ pc = "release" => DOMAIN activeTests = {}
        /\ pc' # "idle" => ~ DispatcherActive'
        /\ pc # "idle" => Len(testQueue') >= Len(testQueue) ]_vars

\* The state a completed shutdown() leaves: empty running-table, no active
\* dispatcher, no scheduled job.
Quiescent ==
    /\ DOMAIN activeTests = {}
    /\ ~ DispatcherActive
    /\ DOMAIN scheduledTests = {}

C21_FinalStatusPersisted ==
    [][ (CallStopAllTests \/ ShutdownStopAll)
        => \A t \in DOMAIN activeTests : dbStatus'[t] # "running" ]_vars

\* C23 (ShutdownSpec): when shutdown() returns, no interval the engine has
\* set for itself (dispatcher, scheduled-test checker, performance monitor,
\* scheduled jobs) is active, and no sampling interval is.
C23_NoTimerAfterShutdown ==
    [][ ShutdownRelease
        => /\ \A h \in DOMAIN engineTimers' : ~ engineTimers'[h].active
           /\ \A h \in DOMAIN timers' : ~ timers'[h].active ]_vars

\* C24 (TeardownSpec): when the process exits after SIGTERM, no test is
\* resident and no sampling interval is active.
C24_SigtermTearsDown ==
    pc = "exited" => (DOMAIN activeTests = {} /\ ActiveTimers = {})

\* C22 (FaultSpec): when the stops of some resident tests throw inside
\* shutdown(), the failure is caught: those tests are not counted, the
\* interval of every test that was resident is cleared, the running-table
\* ends empty and the call goes on to release the scheduled jobs, which
\* leaves none.
C22_ShutdownSurvivesFailedStop ==
    [][ /\ \A F \in SUBSET TestIds :
              ShutdownStopAllFailing(F)
              => /\ ret'.val = Cardinality(DOMAIN activeTests \ F)
                 /\ \A t \in DOMAIN activeTests :
                        ~ timers'[activeTests[t].intervalId].active
                 /\ activeTests' = << >>
                 /\ pc' = "release"
        /\ ShutdownRelease
              => /\ scheduledTests' = << >>
                 /\ DOMAIN activeTests' = {}
                 /\ pc' = "done" ]_vars

\* shutdown() is about to release the scheduled jobs after a stopAllTests in
\* which the stop of one of two resident tests threw
C22_Witness ==
    /\ pc = "release"
    /\ ret.op = "stopAllTests"
    /\ ret.arg = 2
    /\ ret.val = 1
    /\ DOMAIN activeTests = {}
    /\ DOMAIN scheduledTests # {}
    /\ \A h \in DOMAIN timers : ~ timers[h].active

\* C25 (ReadSpec): getStats() never divides by zero: the success rate and
\* the average runtime it returns are finite numbers, and both are 0 when no
\* test has been started.
C25_NoDivisionByZero ==
    [][ ret'.op = "getStats"
        => /\ Finite(ret'.val.successRate)
           /\ Finite(ret'.val.averageRunTime)
           /\ stats.testsExecuted = 0
                  => /\ ret'.val.successRate = Whole(0)
                     /\ ret'.val.averageRunTime = Whole(0) ]_vars

\* getStats() has returned on an engine that never started a test
C25_Witness ==
    /\ ret.op = "getStats"
    /\ stats.testsExecuted = 0
    /\ ret.val.testsExecuted = 0
    /\ ret.val.successRate = Whole(0)

\* C27 (StatsSpec): over every step of the engine (start, stop, stopAll,
\* dispatcher tick, monitor tick, the steps of shutdown) no counter
\* of the statistics decreases, and a counter changes only in a step that
\* admits a test (addActiveTest) or stops tests (stopTest, stopAllTests).
C27_CountersMonotone ==
    [][ /\ stats'.testsExecuted >= stats.testsExecuted
        /\ stats'.testsSuccessful >= stats.testsSuccessful
        /\ stats'.testsFailed >= stats.testsFailed
        /\ stats'.totalRunTime >= stats.totalRunTime
        /\ stats' # stats
              => \/ \E t \in TestIds : CallAddActiveTest(t)
                 \/ \E t \in TestIds : CallStopTest(t)
                 \/ CallStopAllTests
                 \/ ShutdownStopAll ]_vars

\* tests were started and stopped after running for a while, and the monitor
\* has just fired
C27_Witness ==
    /\ stats.testsExecuted = 2
    /\ stats.totalRunTime > 0
    /\ ret.op = "monitor"

\* C29 (ReadSpec): a firing of the performance monitor, whatever it warns
\* about, and a call of getStats, getActiveTestCount, getActiveTests or
\* getTestById leave the running-table, the queue, maxConcurrentTests, the
\* scheduled-jobs table and the statistics as they were.
C29_MonitorAndGettersReadOnly ==
    [][ ret'.op \in {"monitor", "getStats", "getActiveTestCount",
                     "getActiveTests", "getTestById"}
        => UNCHANGED << activeTests, testQueue, maxConcurrentTests,
                        scheduledTests, stats, timers, engineTimers >> ]_vars

\* the monitor has fired and warned about load and memory, with a running
\* test, a queued configuration and a scheduled job
C29_Witness ==
    /\ ret.op = "monitor"
    /\ ret.val = {"load", "memory"}
    /\ DOMAIN activeTests # {}
    /\ Len(testQueue) > 0
    /\ DOMAIN scheduledTests # {}

\* C26 (LoopSpec): once tests have been started, getStats() reports the
\* success rate succeeded / started and the average runtime cumulative
\* runtime / started, where a test that has completed on its own counts as
\* succeeded and its runtime (at least one sampling period) is part of the
\* cumulative runtime.
C26_StatsCountCompletions ==
    LET completed == { t \in TestIds : dbStatus[t] = "completed" }
        st == getStats
    IN  st.testsExecuted > 0
        => /\ st.successRate = Div(st.testsSuccessful * 100, st.testsExecuted)
           /\ st.averageRunTime
                  = Round(Div(st.totalRunTime, st.testsExecuted))
           /\ st.testsSuccessful >= Cardinality(completed)
           /\ st.totalRunTime >= Cardinality(completed)

\* C28 (StoreSpec): getTestResults returns the samples saved for the test id
\* in the order they were produced, oldest first, also for samples saved
\* within one second; all of them when the limit allows, and otherwise
\* `limit` of them, still in that order.
C28_ResultsInProductionOrder ==
    [][ ret'.op = "getTestResults"
        => LET rows == dbResults[ret'.arg[1]]
               limit == ret'.arg[2]
               r == ret'.val
           IN  /\ Len(r) = IF limit < Len(rows) THEN limit ELSE Len(rows)
               /\ \A i \in 1..Len(r) : \E k \in 1..Len(rows) : r[i] = rows[k]
               /\ \A i, j \in 1..Len(r) : i < j => r[i].tick < r[j].tick ]_vars

\* C30 (CapSpec): a change of maxConcurrentTests, also to a value below the
\* number of resident tests, removes no entry of the running-table, clears no
\* interval and moves nothing in the queue; a later dispatcher tick leaves the
\* table and the intervals alone and promotes the head of the queue exactly
\* when the table is smaller than the cap as it is then.
C30_CapChangePreemptsNothing ==
    [][ /\ maxConcurrentTests' # maxConcurrentTests
              => UNCHANGED << activeTests, timers, engineTimers, testQueue,
                              executed, stats >>
        /\ QueueProcessorTick
              => /\ UNCHANGED << activeTests, timers, engineTimers >>
                 /\ testQueue' # testQueue
                        <=> /\ Len(testQueue) > 0
                            /\ Cardinality(DOMAIN activeTests)
                                   < maxConcurrentTests ]_vars

\* the cap has just been lowered below the number of resident tests, with a
\* configuration queued and the dispatcher running
C30_Witness ==
    /\ ret.op = "setMaxConcurrentTests"
    /\ maxConcurrentTests < Cardinality(DOMAIN activeTests)
    /\ Len(testQueue) > 0
    /\ DispatcherActive

\* C34 (QueueSpec): the dispatcher promotes in FIFO order: a tick that takes
\* a configuration takes the oldest one and leaves the others in their order,
\* so the promoted configurations followed by the queued ones are always the
\* configurations in the order they were enqueued.
C34_Fifo ==
    [][ /\ QueueProcessorTick /\ testQueue' # testQueue
              => /\ testQueue' = Tail(testQueue)
                 /\ executed' = Append(executed, Head(testQueue))
        /\ executed' \o testQueue'
              = SubSeq(QueueOrder, 1, Len(executed') + Len(testQueue')) ]_vars

\* the oldest of three queued configurations has been promoted and the other
\* two are still queued
C34_Witness ==
    /\ executed = << "A" >>
    /\ testQueue = << "B", "C" >>

\* C36 (CapSpec): a dispatcher tick takes at most one entry off the queue,
\* and takes none and leaves queue and running-table as they are when the
\* queue is empty or the running-table holds maxConcurrentTests tests or more.
C36_TickTakesAtMostOne ==
    [][ QueueProcessorTick
        => /\ Len(testQueue') >= Len(testQueue) - 1
           /\ activeTests' = activeTests
           /\ ( \/ Len(testQueue) = 0
                \/ Cardinality(DOMAIN activeTests) >= maxConcurrentTests )
                  => testQueue' = testQueue /\ executed' = executed ]_vars

\* the dispatcher runs with two configurations queued and the running-table
\* at the cap: a tick from this state comes back to it
C36_Witness ==
    /\ DispatcherActive
    /\ Len(testQueue) = 2
    /\ executed = << >>
    /\ Cardinality(DOMAIN activeTests) >= maxConcurrentTests
    /\ ret = NoRet
    /\ stats.testsExecuted > 0

\* C37 (BasicSpec): at most one dispatcher interval of the engine is active
\* at any time.
C37_OneDispatcher ==
    Cardinality({ h \in DOMAIN engineTimers :
                    engineTimers[h].kind = "dispatcher"
                    /\ engineTimers[h].active }) <= 1

\* C38 (EngineSpec): the running-table never holds more tests than the
\* tests-started counter says, and the counter is the number of addActiveTest
\* calls made so far (each call of a caller comes with one interval of its
\* own, so the calls are the caller intervals created).
C38_StartedCountsCalls ==
    /\ Cardinality(DOMAIN activeTests) <= stats.testsExecuted
    /\ stats.testsExecuted = Len(timers)

\* three addActiveTest calls have been made, one test is resident
C38_Witness ==
    /\ stats.testsExecuted = 3
    /\ Len(timers) = 3
    /\ Cardinality(DOMAIN activeTests) = 1

\* C31 (PromptSpec): when every sample of a test succeeds and is saved before
\* the next tick is due, the number N of samples persisted when the status is
\* completed is frequency * duration within one: with the interval p =
\* 1 / frequency and the duration d in clock units, d - p <= N * p <= d + p.
C31_SampleCount ==
    \A h \in DOMAIN timers :
        LET t == timers[h].test
            p == timers[h].period
            d == timers[h].endTime - activeTests[t].startTime
            N == Len(dbResults[t])
        IN  dbStatus[t] = "completed"
            => /\ N * p >= d - p
               /\ N * p <= d + p

\* a test of two intervals' duration has completed with two samples persisted
C31_Witness ==
    \E h \in DOMAIN timers :
        LET t == timers[h].test
        IN  /\ dbStatus[t] = "completed"
            /\ timers[h].endTime - activeTests[t].startTime = 2 * timers[h].period
            /\ Len(dbResults[t]) = 2
            /\ ~ timers[h].active

\* C35 (LoopSpec): once the persisted status of a test is completed, failed
\* or stopped, no step changes it.
C35_TerminalStatusStays ==
    [][ \A t \in TestIds :
          dbStatus[t] \in {"completed", "failed", "stopped"}
          => dbStatus'[t] = dbStatus[t] ]_vars

\* C32 (Spec): the stop endpoint consults the table every front-end module
\* registers in: a stop request for the id of a resident test removes its
\* entry and clears its interval.
C32_OneRunningTable ==
    [][ \A t \in TestIds :
          (t \in DOMAIN activeTests /\ DeleteTest(t))
          => /\ t \notin DOMAIN activeTests'
             /\ \A h \in DOMAIN timers :
                    timers[h].test = t => ~ timers'[h].active ]_vars

\* C33 (ResultsSpec): deleting the results of a test whose persisted status
\* is running stops the test: its sampling interval is cleared by the delete
\* request, and no tick starts for a test whose configuration row is gone, so
\* that only an invocation already in flight can still persist a row for it.
C33_DeleteStopsRunningTest ==
    [][ /\ \A t \in TestIds :
              (dbStatus[t] = "running" /\ DeleteResults(t))
              => \A h \in DOMAIN timers :
                    timers[h].test = t => ~ timers'[h].active
        /\ \A h \in DOMAIN timers :
              dbStatus[timers[h].test] = "none" => ~ TimerFire(h) ]_vars

\* C39 (Spec): the activeTests value the health and dashboard endpoints
\* report is the number of tests resident in the running-table.
C39_HealthReportsResidents == healthActiveTests = getActiveTestCount

====
